---- MODULE Spec2Model ----
(***************************************************************************)
(* A model of the flux service (service.go): the orchestration core that   *)
(* composes the registry, platform, history and automator leaves.          *)
(*                                                                         *)
(* Release is modelled as a process with one step per leaf call, so that   *)
(* overlapping Release calls interleave as goroutines do.  The query       *)
(* operations (Services, History, ServiceImages) make no blocking leaf     *)
(* call and share no mutable state with each other; each is one action     *)
(* that leaves its returned value in `last`.                               *)
(***************************************************************************)
EXTENDS Integers, Sequences, FiniteSets, TLC

(* ----------------------------- bounds ---------------------------------- *)

\* Total number of Release calls made in one behaviour.
MaxCalls == 2

\* Largest number of containers the platform reports for one workload.
MaxContainers == 2

(* ------------------------- values of the program ------------------------ *)

\* The goroutines that call Release; two are enough to overlap.
Procs == {"g1", "g2"}

Namespaces == {"prod"}

ServiceIDs == {"web", "api"}

Keys == Namespaces \X ServiceIDs

\* The nil error.
nil == "nil"

ErrNoPlatformConfigured == "no platform configured"

ErrNoHistory == "no history"

\* Errors of the platform leaf's rolling update.
PlatformErrors == {"timeout", "rc not found"}

\* Errors of the history leaf other than ErrNoHistory.
StoreErrors == {"db unavailable"}

\* Errors of the registry leaf.
RegistryErrors == {"repository not found", "registry unavailable"}

\* Errors of the platform leaf's listing calls.
ListErrors == {"platform unavailable"}

StateUnknown == "Unknown"

StateRest == "Rest"

StateInProgress == "InProgress"

(* ----------------------------- the state -------------------------------- *)

VARIABLES
    platform,    \* service.platform: TRUE when a cluster is configured, FALSE when nil
    automator,   \* automator leaf: the automatic-release flag of each key
    present,     \* history leaf: the keys the store holds a record for
    state,       \* history leaf: the state register of each key
    events,      \* history leaf: the audit log of each key
    pc,          \* position of each goroutine inside Release
    key,         \* the (namespace, service) arguments of the goroutine's Release call
    err,         \* the named result `err` of the goroutine's Release call
    outcome,     \* how the platform leaf's Release ended for the goroutine
    ret,         \* what the finished Release call delivered to its caller
    trace,       \* bookkeeping: the history leaf calls made by the goroutine's current call
    snap,        \* bookkeeping: register and log of the key when the call started
    alone,       \* bookkeeping: no other Release ran on the key during the call
    last,        \* the value returned by the most recent query operation
    ncalls       \* number of Release calls made so far

vars == <<platform, automator, present, state, events, pc, key, err, outcome,
          ret, trace, snap, alone, last, ncalls>>

releaseVars == <<pc, key, err, outcome, ret, trace, snap, alone>>

historyVars == <<present, state, events>>

(* ------------------- the history leaf (history.DB) ---------------------- *)

\* history.History as the store returns it for key k.
HistoryOf(k) == [Service |-> k[2], State |-> state[k], Events |-> events[k]]

\* DB.ChangeState: sets the register of the key, creating its record.
ChangeState(k, s) ==
    /\ state' = [state EXCEPT ![k] = s]
    /\ present' = present \cup {k}
    /\ UNCHANGED events

\* DB.LogEvent: appends one event to the log of the key, creating its record.
LogEvent(k, msg) ==
    /\ events' = [events EXCEPT ![k] = Append(@, msg)]
    /\ present' = present \cup {k}
    /\ UNCHANGED state

\* DB.EventsForService: the record of the key, ErrNoHistory when the store
\* holds none, or the store's own failure storeErr.
EventsForService(ns, svc, storeErr) ==
    IF storeErr # nil
    THEN [err |-> storeErr, h |-> [Service |-> "", State |-> "", Events |-> <<>>]]
    ELSE IF <<ns, svc>> \in present
    THEN [err |-> nil, h |-> HistoryOf(<<ns, svc>>)]
    ELSE [err |-> ErrNoHistory, h |-> [Service |-> "", State |-> "", Events |-> <<>>]]

\* DB.AllEvents: every record of the namespace, keyed by service.
AllEvents(ns, storeErr) ==
    IF storeErr # nil
    THEN [err |-> storeErr, m |-> <<>>]
    ELSE [err |-> nil,
          m |-> [s \in {t \in ServiceIDs : <<ns, t>> \in present} |-> HistoryOf(<<ns, s>>)]]

(* ------------------------------ Release --------------------------------- *)

\* The goroutine is between its ChangeState(InProgress) and its
\* ChangeState(Rest).
Running(p) == pc[p] \in {"platform", "log", "rest"}

\* The outcomes of the platform leaf's rolling update: success, an error, a panic.
PlatformOutcomes == {"ok", "panic"} \cup PlatformErrors

\* ReleaseEventText without the error's message.
ReleaseEventText_NoMessage(e) ==
    IF e # nil THEN "Release failed" ELSE "Release succeeded"

\* The text the deferred function logs for the named result err.
ReleaseEventText(e) ==
    IF e # nil THEN "Release failed: " \o e ELSE "Release succeeded"

\* The bookkeeping every entry into Release does.
EnterBookkeeping(p, ns, svc) ==
    /\ pc[p] \in {"idle", "done"}
    /\ ncalls < MaxCalls
    /\ ncalls' = ncalls + 1
    /\ key' = [key EXCEPT ![p] = <<ns, svc>>]
    /\ err' = [err EXCEPT ![p] = nil]
    /\ outcome' = [outcome EXCEPT ![p] = "none"]
    /\ snap' = [snap EXCEPT ![p] = [state |-> state[<<ns, svc>>],
                                    events |-> events[<<ns, svc>>]]]
    /\ alone' = [q \in Procs |->
           IF q = p
           THEN \A r \in Procs \ {p} : ~(Running(r) /\ key[r] = <<ns, svc>>)
           ELSE IF Running(q) /\ key[q] = <<ns, svc>> THEN FALSE ELSE alone[q]]
    /\ UNCHANGED <<platform, automator, last>>

\* ReleaseEnter without the nil check on the platform.
ReleaseEnter_NoNilCheck(p, ns, svc) ==
    /\ EnterBookkeeping(p, ns, svc)
    /\ ChangeState(<<ns, svc>>, StateInProgress)
    /\ pc' = [pc EXCEPT ![p] = "platform"]
    /\ ret' = [ret EXCEPT ![p] = "none"]
    /\ trace' = [trace EXCEPT ![p] =
           <<[call |-> "ChangeState", arg |-> StateInProgress]>>]

\* ReleaseEnter without the ChangeState(InProgress) call.
ReleaseEnter_NoInProgress(p, ns, svc) ==
    /\ EnterBookkeeping(p, ns, svc)
    /\ IF ~platform
       THEN /\ pc' = [pc EXCEPT ![p] = "done"]
            /\ ret' = [ret EXCEPT ![p] = ErrNoPlatformConfigured]
       ELSE /\ pc' = [pc EXCEPT ![p] = "platform"]
            /\ ret' = [ret EXCEPT ![p] = "none"]
    /\ trace' = [trace EXCEPT ![p] = <<>>]
    /\ UNCHANGED historyVars

\* ReleaseEnter that also logs an event when the release starts.
ReleaseEnter_LogsStart(p, ns, svc) ==
    /\ EnterBookkeeping(p, ns, svc)
    /\ IF ~platform
       THEN /\ pc' = [pc EXCEPT ![p] = "done"]
            /\ ret' = [ret EXCEPT ![p] = ErrNoPlatformConfigured]
            /\ trace' = [trace EXCEPT ![p] = <<>>]
            /\ UNCHANGED historyVars
       ELSE /\ state' = [state EXCEPT ![<<ns, svc>>] = StateInProgress]
            /\ events' = [events EXCEPT ![<<ns, svc>>] = Append(@, "Release started")]
            /\ present' = present \cup {<<ns, svc>>}
            /\ pc' = [pc EXCEPT ![p] = "platform"]
            /\ ret' = [ret EXCEPT ![p] = "none"]
            /\ trace' = [trace EXCEPT ![p] =
                   <<[call |-> "ChangeState", arg |-> StateInProgress]>>]

\* Release up to the platform call: the nil check and ChangeState(InProgress).
ReleaseEnter(p, ns, svc) ==
    /\ EnterBookkeeping(p, ns, svc)
    /\ IF ~platform
       THEN /\ pc' = [pc EXCEPT ![p] = "done"]
            /\ ret' = [ret EXCEPT ![p] = ErrNoPlatformConfigured]
            /\ trace' = [trace EXCEPT ![p] = <<>>]
            /\ UNCHANGED historyVars
       ELSE /\ ChangeState(<<ns, svc>>, StateInProgress)
            /\ pc' = [pc EXCEPT ![p] = "platform"]
            /\ ret' = [ret EXCEPT ![p] = "none"]
            /\ trace' = [trace EXCEPT ![p] =
                   <<[call |-> "ChangeState", arg |-> StateInProgress]>>]

\* PlatformRelease with the cleanup as a statement after the call instead of
\* a deferred function: a panic leaves Release at once.
PlatformRelease_PanicSkipsCleanup(p) ==
    /\ pc[p] = "platform"
    /\ \E o \in PlatformOutcomes :
          /\ outcome' = [outcome EXCEPT ![p] = o]
          /\ err' = [err EXCEPT ![p] = IF o \in PlatformErrors THEN o ELSE nil]
          /\ pc' = [pc EXCEPT ![p] = IF o = "panic" THEN "done" ELSE "log"]
          /\ ret' = [ret EXCEPT ![p] = IF o = "panic" THEN "panic" ELSE @]
    /\ UNCHANGED <<platform, automator, historyVars, key, trace, snap, alone, last, ncalls>>

\* The blocking platform.Release call ends; `return` assigns the named result.
\* A panic leaves the named result at its zero value.
PlatformRelease(p) ==
    /\ pc[p] = "platform"
    /\ \E o \in PlatformOutcomes :
          /\ outcome' = [outcome EXCEPT ![p] = o]
          /\ err' = [err EXCEPT ![p] = IF o \in PlatformErrors THEN o ELSE nil]
    /\ pc' = [pc EXCEPT ![p] = "log"]
    /\ UNCHANGED <<platform, automator, historyVars, key, ret, trace, snap, alone, last, ncalls>>

\* The deferred function, first statement: LogEvent.
DeferLogEvent(p) ==
    /\ pc[p] = "log"
    /\ LogEvent(key[p], ReleaseEventText(err[p]))
    /\ trace' = [trace EXCEPT ![p] =
           Append(@, [call |-> "LogEvent", arg |-> ReleaseEventText(err[p])])]
    /\ pc' = [pc EXCEPT ![p] = "rest"]
    /\ UNCHANGED <<platform, automator, key, err, outcome, ret, snap, alone, last, ncalls>>

\* DeferChangeState that resets the register only after a success.
DeferChangeState_OnlyOnSuccess(p) ==
    /\ pc[p] = "rest"
    /\ IF err[p] = nil
       THEN ChangeState(key[p], StateRest)
       ELSE UNCHANGED historyVars
    /\ trace' = [trace EXCEPT ![p] =
           Append(@, [call |-> "ChangeState", arg |-> StateRest])]
    /\ ret' = [ret EXCEPT ![p] = IF outcome[p] = "panic" THEN "panic" ELSE err[p]]
    /\ pc' = [pc EXCEPT ![p] = "done"]
    /\ UNCHANGED <<platform, automator, key, err, outcome, snap, alone, last, ncalls>>

\* DeferChangeState with a cleanup that overwrites the named result.
DeferChangeState_DropsErr(p) ==
    /\ pc[p] = "rest"
    /\ ChangeState(key[p], StateRest)
    /\ trace' = [trace EXCEPT ![p] =
           Append(@, [call |-> "ChangeState", arg |-> StateRest])]
    /\ ret' = [ret EXCEPT ![p] = IF outcome[p] = "panic" THEN "panic" ELSE nil]
    /\ pc' = [pc EXCEPT ![p] = "done"]
    /\ UNCHANGED <<platform, automator, key, err, outcome, snap, alone, last, ncalls>>

\* The deferred function, last statement: ChangeState(Rest); then Release
\* returns the named result, or the panic goes on to the caller.
DeferChangeState(p) ==
    /\ pc[p] = "rest"
    /\ ChangeState(key[p], StateRest)
    /\ trace' = [trace EXCEPT ![p] =
           Append(@, [call |-> "ChangeState", arg |-> StateRest])]
    /\ ret' = [ret EXCEPT ![p] = IF outcome[p] = "panic" THEN "panic" ELSE err[p]]
    /\ pc' = [pc EXCEPT ![p] = "done"]
    /\ UNCHANGED <<platform, automator, key, err, outcome, snap, alone, last, ncalls>>

(* -------------------------- query operations ---------------------------- *)

\* The shape of `last`; every operation fills the fields it returns.
NoResult(op, ns, svc) ==
    [op |-> op, ns |-> ns, svc |-> svc, err |-> nil, panicked |-> FALSE,
     services |-> <<>>, hist |-> <<>>, images |-> <<>>,
     containers |-> <<>>, registry |-> <<>>, lookups |-> <<>>, leafErr |-> nil,
     leafHist |-> [Service |-> "", State |-> "", Events |-> <<>>],
     repository |-> <<>>, repoImages |-> <<>>, leafImages |-> <<>>, repeat |-> FALSE]

\* What platform.Services may return: a list of services, or an error.
ServiceLists == {<<>>, <<"web">>, <<"web", "api">>}

\* service.Services.
Services(ns) ==
    /\ \E l \in ServiceLists, e \in {nil} \cup ListErrors :
          last' = IF ~platform
                  THEN [NoResult("Services", ns, "") EXCEPT !.err = ErrNoPlatformConfigured]
                  ELSE IF e # nil
                  THEN [NoResult("Services", ns, "") EXCEPT !.err = e, !.leafErr = e]
                  ELSE [NoResult("Services", ns, "") EXCEPT !.services = l]
    /\ UNCHANGED <<platform, automator, historyVars, releaseVars, ncalls>>

\* HistoryResult that returns ErrNoHistory to the caller like any other error.
HistoryResult_NoNormalization(ns, svc, storeErr) ==
    IF svc = ""
    THEN LET r == AllEvents(ns, storeErr) IN [err |-> r.err, hist |-> r.m]
    ELSE LET r == EventsForService(ns, svc, storeErr)
         IN  IF r.err # nil
             THEN [err |-> r.err, hist |-> <<>>]
             ELSE [err |-> nil, hist |-> [s \in {r.h.Service} |-> r.h]]

\* HistoryResult that builds the Unknown record whenever the store did not fail.
HistoryResult_AlwaysUnknown(ns, svc, storeErr) ==
    IF svc = ""
    THEN LET r == AllEvents(ns, storeErr) IN [err |-> r.err, hist |-> r.m]
    ELSE LET r == EventsForService(ns, svc, storeErr)
             h == [Service |-> svc, State |-> StateUnknown, Events |-> <<>>]
         IN  IF r.err # ErrNoHistory /\ r.err # nil
             THEN [err |-> r.err, hist |-> <<>>]
             ELSE [err |-> nil, hist |-> [s \in {h.Service} |-> h]]

\* HistoryResult that builds the Unknown record for every error of the store.
HistoryResult_AnyErrorUnknown(ns, svc, storeErr) ==
    IF svc = ""
    THEN LET r == AllEvents(ns, storeErr) IN [err |-> r.err, hist |-> r.m]
    ELSE LET r == EventsForService(ns, svc, storeErr)
             h == IF r.err # nil
                  THEN [Service |-> svc, State |-> StateUnknown, Events |-> <<>>]
                  ELSE r.h
         IN  [err |-> nil, hist |-> [s \in {h.Service} |-> h]]

\* The value service.History returns: [err, hist].
HistoryResult(ns, svc, storeErr) ==
    IF svc = ""
    THEN LET r == AllEvents(ns, storeErr) IN [err |-> r.err, hist |-> r.m]
    ELSE LET r == EventsForService(ns, svc, storeErr)
             h == IF r.err = ErrNoHistory
                  THEN [Service |-> svc, State |-> StateUnknown, Events |-> <<>>]
                  ELSE r.h
         IN  IF r.err # ErrNoHistory /\ r.err # nil
             THEN [err |-> r.err, hist |-> <<>>]
             ELSE [err |-> nil, hist |-> [s \in {h.Service} |-> h]]

\* History that stores the record it builds for a workload without history.
History_PersistsUnknown(ns, svc) ==
    /\ \E e \in {nil} \cup StoreErrors :
          LET r == HistoryResult(ns, svc, e)
              leaf == EventsForService(ns, svc, e)
          IN  /\ last' = [NoResult("History", ns, svc) EXCEPT
                             !.err = r.err, !.hist = r.hist,
                             !.leafErr = IF svc = "" THEN e ELSE leaf.err,
                             !.leafHist = IF svc = "" THEN @ ELSE leaf.h]
              /\ IF svc # "" /\ leaf.err = ErrNoHistory
                 THEN ChangeState(<<ns, svc>>, StateUnknown)
                 ELSE UNCHANGED historyVars
    /\ UNCHANGED <<platform, automator, releaseVars, ncalls>>

\* service.History.
History(ns, svc) ==
    /\ \E e \in {nil} \cup StoreErrors :
          LET r == HistoryResult(ns, svc, e)
              leaf == EventsForService(ns, svc, e)
          IN  last' = [NoResult("History", ns, svc) EXCEPT
                          !.err = r.err, !.hist = r.hist,
                          !.leafErr = IF svc = "" THEN e ELSE leaf.err,
                          !.leafHist = IF svc = "" THEN @ ELSE leaf.h]
    /\ UNCHANGED <<platform, automator, historyVars, releaseVars, ncalls>>

(* ---------------- the registry leaf and image references ---------------- *)

\* Image references as the platform reports them, one token per element:
\* app:v1, app:v3, db:v1 and the untagged db.
ImageRefs == {<<"app", ":", "v1">>, <<"app", ":", "v3">>, <<"db", ":", "v1">>, <<"db">>}

\* The repositories the registry knows.
RepoIds == {<<"app">>, <<"db">>}

\* Position of the first ":" of an image reference, 0 when it has none.
TagSeparator(ref) ==
    IF \E i \in 1 .. Len(ref) : ref[i] = ":"
    THEN CHOOSE i \in 1 .. Len(ref) :
            /\ ref[i] = ":"
            /\ \A j \in 1 .. (i - 1) : ref[j] # ":"
    ELSE 0

\* registry.ParseImage(ref).Repository(): the reference without its tag.
Repository(ref) ==
    IF TagSeparator(ref) = 0 THEN ref ELSE SubSeq(ref, 1, TagSeparator(ref) - 1)

\* Image lists a repository may hold (tag and creation time of each image).
ImageLists ==
    {<<[Tag |-> "v3", CreatedAt |-> 3], [Tag |-> "v1", CreatedAt |-> 1]>>,
     <<[Tag |-> "v1", CreatedAt |-> 1]>>}

\* What the registry leaf answers for one repository.
RepoResults ==
    {[err |-> e, Images |-> <<>>] : e \in RegistryErrors}
        \cup {[err |-> nil, Images |-> l] : l \in ImageLists}

\* The images each repository holds when the registry can be reached.
RepoImages ==
    [repo \in RepoIds |->
        IF repo = <<"app">>
        THEN <<[Tag |-> "v3", CreatedAt |-> 3], [Tag |-> "v1", CreatedAt |-> 1]>>
        ELSE <<[Tag |-> "v1", CreatedAt |-> 1]>>]

\* The contents of the registry leaf at the time of a call: every
\* repository answers with its images or fails with one of the errors.
Registries ==
    {reg \in [RepoIds -> RepoResults] :
        \A repo \in RepoIds : reg[repo].err = nil => reg[repo].Images = RepoImages[repo]}

\* Client.GetRepository: the repository's record, or its failure.
GetRepository(reg, repo) ==
    IF repo \in DOMAIN reg
    THEN reg[repo]
    ELSE [err |-> "repository not found", Images |-> <<>>]

\* platform.Container values of the running workloads.
Containers ==
    {[Name |-> "web", Image |-> <<"app", ":", "v1">>],
     [Name |-> "web", Image |-> <<"app", ":", "v3">>],
     [Name |-> "db", Image |-> <<"db", ":", "v1">>],
     [Name |-> "cache", Image |-> <<"db">>]}

RECURSIVE SeqsUpTo(_, _)
\* All sequences over S of length at most n.
SeqsUpTo(S, n) ==
    IF n = 0
    THEN {<<>>}
    ELSE SeqsUpTo(S, n - 1)
            \cup {Append(q, x) : q \in {r \in SeqsUpTo(S, n - 1) : Len(r) = n - 1}, x \in S}

\* What platform.ContainersFor may report.
ContainerLists == SeqsUpTo(Containers, MaxContainers)

RECURSIVE Correlate_Partial(_, _, _, _, _)
\* Correlate that hands back what it built when a lookup fails.
Correlate_Partial(containers, reg, i, result, lookups) ==
    IF i > Len(containers)
    THEN [err |-> nil, images |-> result, lookups |-> lookups]
    ELSE LET repo == Repository(containers[i].Image)
             repository == GetRepository(reg, repo)
         IN  IF repository.err # nil
             THEN [err |-> repository.err, images |-> result,
                   lookups |-> Append(lookups, repo)]
             ELSE Correlate_Partial(containers, reg, i + 1,
                      Append(result, [Container |-> containers[i],
                                      Images |-> repository.Images]),
                      Append(lookups, repo))

RECURSIVE Correlate_Prepend(_, _, _, _, _)
\* Correlate that puts each new pair in front of the result.
Correlate_Prepend(containers, reg, i, result, lookups) ==
    IF i > Len(containers)
    THEN [err |-> nil, images |-> result, lookups |-> lookups]
    ELSE LET repo == Repository(containers[i].Image)
             repository == GetRepository(reg, repo)
         IN  IF repository.err # nil
             THEN [err |-> repository.err, images |-> <<>>,
                   lookups |-> Append(lookups, repo)]
             ELSE Correlate_Prepend(containers, reg, i + 1,
                      <<[Container |-> containers[i],
                         Images |-> repository.Images]>> \o result,
                      Append(lookups, repo))

RECURSIVE Correlate_KeepsGoing(_, _, _, _, _)
\* Correlate that looks every container up and reports the first failure
\* at the end.
Correlate_KeepsGoing(containers, reg, i, result, lookups) ==
    IF i > Len(containers)
    THEN LET failed == {j \in DOMAIN lookups : GetRepository(reg, lookups[j]).err # nil}
         IN  IF failed = {}
             THEN [err |-> nil, images |-> result, lookups |-> lookups]
             ELSE [err |-> GetRepository(reg,
                              lookups[CHOOSE j \in failed : \A h \in failed : j <= h]).err,
                   images |-> <<>>, lookups |-> lookups]
    ELSE LET repo == Repository(containers[i].Image)
             repository == GetRepository(reg, repo)
         IN  Correlate_KeepsGoing(containers, reg, i + 1,
                 IF repository.err # nil
                 THEN result
                 ELSE Append(result, [Container |-> containers[i],
                                      Images |-> repository.Images]),
                 Append(lookups, repo))

RECURSIVE Correlate(_, _, _, _, _)
\* The loop of ServiceImages from container i on; result and lookups are
\* what the earlier iterations built and asked for.
Correlate(containers, reg, i, result, lookups) ==
    IF i > Len(containers)
    THEN [err |-> nil, images |-> result, lookups |-> lookups]
    ELSE LET repo == Repository(containers[i].Image)
             repository == GetRepository(reg, repo)
         IN  IF repository.err # nil
             THEN [err |-> repository.err, images |-> <<>>,
                   lookups |-> Append(lookups, repo)]
             ELSE Correlate(containers, reg, i + 1,
                      Append(result, [Container |-> containers[i],
                                      Images |-> repository.Images]),
                      Append(lookups, repo))

\* The value service.ServiceImages returns for what the leaves answer:
\* containers or listErr from the platform, reg from the registry.
ServiceImagesResult(containers, listErr, reg) ==
    IF listErr # nil
    THEN [err |-> listErr, images |-> <<>>, lookups |-> <<>>]
    ELSE Correlate(containers, reg, 1, <<>>, <<>>)

\* service.ServiceImages.  With no platform the call dereferences the nil
\* cluster and panics; otherwise the platform lists the containers or fails.
ServiceImages(ns, svc) ==
    /\ \/ /\ ~platform
          /\ last' = [NoResult("ServiceImages", ns, svc) EXCEPT !.panicked = TRUE]
       \/ /\ platform
          /\ \E e \in ListErrors :
                \E r \in {ServiceImagesResult(<<>>, e, <<>>)} :
                    last' = [NoResult("ServiceImages", ns, svc) EXCEPT
                                !.err = r.err, !.images = r.images,
                                !.lookups = r.lookups, !.leafErr = e]
       \/ /\ platform
          /\ \E cs \in ContainerLists, reg \in Registries :
                \E r \in {ServiceImagesResult(cs, nil, reg)} :
                    last' = [NoResult("ServiceImages", ns, svc) EXCEPT
                                !.err = r.err, !.images = r.images,
                                !.lookups = r.lookups,
                                !.containers = cs, !.registry = reg]
    /\ UNCHANGED <<platform, automator, historyVars, releaseVars, ncalls>>

(* ------------------------------- Images --------------------------------- *)

\* What the registry leaf may deliver for a repository: the answers above,
\* and a list that is not newest first.
LeafRepoResults ==
    RepoResults
        \cup {[err |-> nil,
               Images |-> <<[Tag |-> "v1", CreatedAt |-> 1], [Tag |-> "v3", CreatedAt |-> 3]>>]}

\* The value service.Images returns for the leaf's answer r: [err, images].
ImagesResult(r) ==
    IF r.err # nil
    THEN [err |-> r.err, images |-> <<>>]
    ELSE [err |-> nil, images |-> r.Images]

\* service.Images.
Images(repository) ==
    /\ \E r \in LeafRepoResults :
          last' = [NoResult("Images", "", "") EXCEPT
                      !.repository = repository,
                      !.err = ImagesResult(r).err,
                      !.repoImages = ImagesResult(r).images,
                      !.leafErr = r.err,
                      !.leafImages = r.Images]
    /\ UNCHANGED <<platform, automator, historyVars, releaseVars, ncalls>>

(* ------------------------ Automate / Deautomate -------------------------- *)

\* Automator.Enable: sets the flag of the key.
Enable(k) == automator' = [automator EXCEPT ![k] = TRUE]

\* Automator.Disable: clears the flag of the key.
Disable(k) == automator' = [automator EXCEPT ![k] = FALSE]

\* The call repeats the operation that came right before it.
Repeats(op, ns, svc) == last.op = op /\ last.ns = ns /\ last.svc = svc

\* Automate that also writes an audit event for the key.
Automate_LogsEvent(ns, svc) ==
    /\ Enable(<<ns, svc>>)
    /\ events' = [events EXCEPT ![<<ns, svc>>] = Append(@, "Automation enabled")]
    /\ present' = present \cup {<<ns, svc>>}
    /\ last' = [NoResult("Automate", ns, svc) EXCEPT
                    !.err = nil, !.repeat = Repeats("Automate", ns, svc)]
    /\ UNCHANGED <<platform, state, releaseVars, ncalls>>

\* Automate that flips the flag instead of setting it.
Automate_Toggle(ns, svc) ==
    /\ automator' = [automator EXCEPT ![<<ns, svc>>] = ~@]
    /\ last' = [NoResult("Automate", ns, svc) EXCEPT
                    !.err = nil, !.repeat = Repeats("Automate", ns, svc)]
    /\ UNCHANGED <<platform, historyVars, releaseVars, ncalls>>

\* service.Automate.
Automate(ns, svc) ==
    /\ Enable(<<ns, svc>>)
    /\ last' = [NoResult("Automate", ns, svc) EXCEPT
                    !.err = nil, !.repeat = Repeats("Automate", ns, svc)]
    /\ UNCHANGED <<platform, historyVars, releaseVars, ncalls>>

\* service.Deautomate.
Deautomate(ns, svc) ==
    /\ Disable(<<ns, svc>>)
    /\ last' = [NoResult("Deautomate", ns, svc) EXCEPT
                    !.err = nil, !.repeat = Repeats("Deautomate", ns, svc)]
    /\ UNCHANGED <<platform, historyVars, releaseVars, ncalls>>

(* ----------------------------- behaviours ------------------------------- *)

Init ==
    /\ platform \in BOOLEAN
    /\ automator = [k \in Keys |-> FALSE]
    /\ present = {}
    /\ state = [k \in Keys |-> StateRest]
    /\ events = [k \in Keys |-> <<>>]
    /\ pc = [p \in Procs |-> "idle"]
    /\ key = [p \in Procs |-> <<"prod", "web">>]
    /\ err = [p \in Procs |-> nil]
    /\ outcome = [p \in Procs |-> "none"]
    /\ ret = [p \in Procs |-> "none"]
    /\ trace = [p \in Procs |-> <<>>]
    /\ snap = [p \in Procs |-> [state |-> StateRest, events |-> <<>>]]
    /\ alone = [p \in Procs |-> TRUE]
    /\ last = NoResult("none", "", "")
    /\ ncalls = 0

Next ==
    \/ \E p \in Procs, ns \in Namespaces, svc \in ServiceIDs : ReleaseEnter(p, ns, svc)
    \/ \E p \in Procs : PlatformRelease(p)
    \/ \E p \in Procs : DeferLogEvent(p)
    \/ \E p \in Procs : DeferChangeState(p)
    \/ \E ns \in Namespaces : Services(ns)
    \/ \E ns \in Namespaces, svc \in ServiceIDs \cup {""} : History(ns, svc)

Spec == Init /\ [][Next]_vars

\* The image correlation on its own: it reads the platform and the registry
\* and touches nothing else.
NextImages ==
    \E ns \in Namespaces, svc \in ServiceIDs : ServiceImages(ns, svc)

SpecImages == Init /\ [][NextImages]_vars

\* The operations that only forward to the registry and the automator.
NextForward ==
    \/ \E repository \in RepoIds : Images(repository)
    \/ \E ns \in Namespaces, svc \in ServiceIDs : Automate(ns, svc)
    \/ \E ns \in Namespaces, svc \in ServiceIDs : Deautomate(ns, svc)

SpecForward == Init /\ [][NextForward]_vars

\* The Release calls on their own.
NextRelease ==
    \/ \E p \in Procs, ns \in Namespaces, svc \in ServiceIDs : ReleaseEnter(p, ns, svc)
    \/ \E p \in Procs : PlatformRelease(p)
    \/ \E p \in Procs : DeferLogEvent(p)
    \/ \E p \in Procs : DeferChangeState(p)

SpecRelease == Init /\ [][NextRelease]_vars

\* The Release calls when every leaf call comes to an end: the platform's
\* rolling update returns or panics and the history calls return, so a
\* goroutine inside Release always takes its next step.
SpecFair ==
    /\ Init
    /\ [][NextRelease]_vars
    /\ \A p \in Procs :
          /\ WF_vars(PlatformRelease(p))
          /\ WF_vars(DeferLogEvent(p))
          /\ WF_vars(DeferChangeState(p))

\* No query or forwarding operation has been called yet.
NoQueryYet == last.op = "none"

\* Every operation of the service together: the goroutines call Release in
\* any interleaving and, at any moment of it, one other operation is called.
NextAll ==
    \/ \E p \in Procs, ns \in Namespaces, svc \in ServiceIDs : ReleaseEnter(p, ns, svc)
    \/ \E p \in Procs : PlatformRelease(p)
    \/ \E p \in Procs : DeferLogEvent(p)
    \/ \E p \in Procs : DeferChangeState(p)
    \/ \E ns \in Namespaces : NoQueryYet /\ Services(ns)
    \/ \E ns \in Namespaces, svc \in ServiceIDs \cup {""} : NoQueryYet /\ History(ns, svc)
    \/ \E ns \in Namespaces, svc \in ServiceIDs : NoQueryYet /\ ServiceImages(ns, svc)
    \/ \E repository \in RepoIds : NoQueryYet /\ Images(repository)
    \/ \E ns \in Namespaces, svc \in ServiceIDs : NoQueryYet /\ Automate(ns, svc)
    \/ \E ns \in Namespaces, svc \in ServiceIDs : NoQueryYet /\ Deautomate(ns, svc)

SpecAll == Init /\ [][NextAll]_vars

TypeOK ==
    /\ platform \in BOOLEAN
    /\ present \subseteq Keys
    /\ \A k \in Keys : state[k] \in {StateRest, StateInProgress}
    /\ \A p \in Procs : pc[p] \in {"idle", "platform", "log", "rest", "done"}
    /\ ncalls \in 0 .. MaxCalls

(* ------------------------------ properties ------------------------------ *)

\* The step in which goroutine p leaves Release.
Returns(p) == pc[p] # "done" /\ pc'[p] = "done"

\* The audit text that matches a platform outcome that is not a panic.
ExpectedText(o) ==
    IF o = "ok" THEN "Release succeeded" ELSE "Release failed: " \o o

\* C1: a Release call that ran on its key with no other Release beside it,
\* started with the register at Rest and whose rolling update succeeded or
\* returned an error, leaves the register at Rest when it returns and the
\* log of the key longer by exactly one event: "Release succeeded", or
\* "Release failed: " followed by the text of the platform error.
ReleaseRoundTrip ==
    [][\A p \in Procs :
          (/\ Returns(p)
           /\ platform
           /\ alone[p]
           /\ snap[p].state = StateRest
           /\ outcome[p] \in {"ok"} \cup PlatformErrors)
          => /\ state'[key[p]] = StateRest
             /\ events'[key[p]] = Append(snap[p].events, ExpectedText(outcome[p]))]_vars

\* C1 witness: a lone call has returned after a platform error, on a key
\* that already had an event, and its failure text ends the log.
ReleaseRoundTripWitness ==
    \E p \in Procs :
        /\ pc[p] = "done"
        /\ platform
        /\ alone[p]
        /\ outcome[p] = "timeout"
        /\ snap[p].state = StateRest
        /\ Len(snap[p].events) = 1
        /\ events[key[p]] = Append(snap[p].events, "Release failed: timeout")
        /\ state[key[p]] = StateRest

\* C2: with no platform configured every Release and every Services call
\* returns ErrNoPlatformConfigured, Release makes no history call, and the
\* register and the log of every key stay as they were at construction.
NoPlatformNoMutation ==
    ~platform =>
        /\ present = {}
        /\ \A k \in Keys : state[k] = StateRest /\ events[k] = <<>>
        /\ \A p \in Procs :
              /\ pc[p] \in {"idle", "done"}
              /\ pc[p] = "done" => ret[p] = ErrNoPlatformConfigured /\ trace[p] = <<>>
        /\ last.op = "Services" =>
              last.err = ErrNoPlatformConfigured /\ last.services = <<>>

\* C2 witness: without a platform, Release has been called by both
\* goroutines and Services was the last query.
NoPlatformWitness ==
    /\ ~platform
    /\ \A p \in Procs : pc[p] = "done" /\ ret[p] = ErrNoPlatformConfigured
    /\ last.op = "Services"
    /\ last.err = ErrNoPlatformConfigured

\* C3: when the rolling update panics, the call has made its LogEvent and
\* its ChangeState(Rest) by the time the panic leaves Release: its history
\* calls are ChangeState(InProgress), one LogEvent, ChangeState(Rest), the
\* register reads Rest, and a call that ran alone lengthened the log by one.
CleanupOnPanic ==
    [][\A p \in Procs :
          (Returns(p) /\ ret'[p] = "panic")
          => /\ Len(trace'[p]) = 3
             /\ trace'[p][1] = [call |-> "ChangeState", arg |-> StateInProgress]
             /\ trace'[p][2].call = "LogEvent"
             /\ trace'[p][3] = [call |-> "ChangeState", arg |-> StateRest]
             /\ state'[key'[p]] = StateRest
             /\ alone'[p] => Len(events'[key'[p]]) = Len(snap'[p].events) + 1]_vars

\* C3 witness: a panic has left Release after the three history calls.
CleanupOnPanicWitness ==
    \E p \in Procs :
        /\ pc[p] = "done"
        /\ outcome[p] = "panic"
        /\ ret[p] = "panic"
        /\ Len(trace[p]) = 3
        /\ state[key[p]] = StateRest
        /\ Len(events[key[p]]) = Len(snap[p].events) + 1

\* C4: a call logs "Release succeeded" only if its rolling update completed
\* without error; after an error or a panic the logged text is another one.
SucceededOnlyOnSuccess ==
    \A p \in Procs :
        \A i \in DOMAIN trace[p] :
            trace[p][i] = [call |-> "LogEvent", arg |-> "Release succeeded"]
                => outcome[p] = "ok"

\* C5: a Release call whose rolling update returned delivers exactly that
\* outcome to its caller: the platform's error, or nil after a success.
ReleaseReturnsPlatformOutcome ==
    \A p \in Procs :
        (pc[p] = "done" /\ outcome[p] \in {"ok"} \cup PlatformErrors)
            => ret[p] = (IF outcome[p] = "ok" THEN nil ELSE outcome[p])

\* C5 witness: a call has returned the platform's error after both history
\* calls of the cleanup were made.
ReleaseReturnsErrorWitness ==
    \E p \in Procs :
        /\ pc[p] = "done"
        /\ outcome[p] = "rc not found"
        /\ ret[p] = "rc not found"
        /\ Len(trace[p]) = 3

\* C6 as stated: whenever the register of a key reads Rest, no Release call
\* on that key is between its ChangeState(InProgress) and ChangeState(Rest).
RestMeansIdle ==
    \A k \in Keys :
        state[k] = StateRest => \A p \in Procs : ~(Running(p) /\ key[p] = k)

\* C6 amended: whenever the register of a key reads Rest, every Release call
\* that is between its two ChangeState steps on that key has overlapped
\* another Release call on the same key; a call that runs alone on its key
\* never sees Rest in between.
RestMeansIdleUnlessOverlapped ==
    \A k \in Keys :
        state[k] = StateRest =>
            \A p \in Procs : (Running(p) /\ key[p] = k) => ~alone[p]

\* C6 witness: a call is running alone on a key on which an earlier call
\* has finished, and the register reads InProgress.
RestMeansIdleWitness ==
    \E p \in Procs, q \in Procs :
        /\ p # q
        /\ Running(p)
        /\ alone[p]
        /\ pc[q] = "done"
        /\ key[q] = key[p]
        /\ Len(trace[q]) = 3
        /\ state[key[p]] = StateInProgress

\* A lookup of the registry for container k of the last ServiceImages call.
LookupOf(k) == GetRepository(last.registry, Repository(last.containers[k].Image))

\* ServiceImages was the last call, the platform was configured and listed
\* the containers.
ListedContainers ==
    /\ last.op = "ServiceImages"
    /\ ~last.panicked
    /\ last.leafErr = nil

\* C7: when the registry lookup of any container of the workload fails,
\* ServiceImages returns an error and an empty result.
ServiceImagesAllOrNothing ==
    (ListedContainers /\ \E k \in DOMAIN last.containers : LookupOf(k).err # nil)
        => last.err # nil /\ last.images = <<>>

\* C7 witness: the first container's lookup succeeded, the second failed,
\* and nothing of the first is in the result.
ServiceImagesAllOrNothingWitness ==
    /\ ListedContainers
    /\ Len(last.containers) = 2
    /\ LookupOf(1).err = nil
    /\ LookupOf(2).err # nil
    /\ last.err = LookupOf(2).err
    /\ last.images = <<>>

\* The reference is the repository id alone or the id followed by a tag.
RunsFrom(ref, repo) ==
    \/ ref = repo
    \/ \E t \in {"v1", "v3"} : ref = repo \o <<":", t>>

\* C8: a successful ServiceImages returns one entry per reported container,
\* in the platform's order; entry i holds container i and the images the
\* registry holds for the repository of container i's running image.
ServiceImagesInOrder ==
    (ListedContainers /\ last.err = nil)
        => /\ Len(last.images) = Len(last.containers)
           /\ \A i \in DOMAIN last.containers :
                 /\ last.images[i].Container = last.containers[i]
                 /\ \E repo \in RepoIds :
                       /\ RunsFrom(last.containers[i].Image, repo)
                       /\ last.registry[repo].err = nil
                       /\ last.images[i].Images = last.registry[repo].Images

\* C8 witness: two containers of different repositories were correlated
\* with two different image lists.
ServiceImagesInOrderWitness ==
    /\ ListedContainers
    /\ last.err = nil
    /\ Len(last.containers) = 2
    /\ Len(last.images) = 2
    /\ last.containers[1].Image = <<"db", ":", "v1">>
    /\ last.containers[2].Image = <<"app", ":", "v3">>
    /\ last.images[1].Images # last.images[2].Images

\* C9: History for a workload the store reports no history for returns no
\* error and a mapping with the single key w, whose record is in state
\* Unknown with no events.
HistoryNormalization ==
    (last.op = "History" /\ last.svc # "" /\ last.leafErr = ErrNoHistory)
        => /\ last.err = nil
           /\ DOMAIN last.hist = {last.svc}
           /\ last.hist[last.svc].State = StateUnknown
           /\ last.hist[last.svc].Events = <<>>

\* C9 witness: the store holds a record for another workload, none for the
\* one asked for, and the Unknown record came back.
HistoryNormalizationWitness ==
    /\ last.op = "History"
    /\ last.svc = "api"
    /\ last.leafErr = ErrNoHistory
    /\ <<last.ns, "web">> \in present
    /\ last.err = nil
    /\ DOMAIN last.hist = {"api"}
    /\ last.hist["api"].State = StateUnknown

\* C10: History for a workload the store returns a record for returns a
\* mapping with the single key w whose value is that record.
HistorySingleEntry ==
    (last.op = "History" /\ last.svc # "" /\ last.leafErr = nil)
        => /\ last.err = nil
           /\ DOMAIN last.hist = {last.svc}
           /\ last.hist[last.svc] = last.leafHist

\* C10 witness: the record of a workload with one event came back under
\* the workload's id.
HistorySingleEntryWitness ==
    /\ last.op = "History"
    /\ last.svc = "api"
    /\ last.leafErr = nil
    /\ DOMAIN last.hist = {"api"}
    /\ Len(last.hist["api"].Events) = 1
    /\ last.hist["api"].State = StateRest
    /\ last.hist["api"] = last.leafHist

\* The list is in strictly descending order of creation time.
NewestFirst(l) ==
    \A i \in 1 .. (Len(l) - 1) : l[i].CreatedAt > l[i + 1].CreatedAt

\* C11: a successful Images call returns the images in strictly descending
\* order of creation time, whatever order the registry leaf delivered.
ImagesNewestFirst ==
    (last.op = "Images" /\ last.err = nil) => NewestFirst(last.repoImages)

\* C12: every Automate call returns nil and leaves the flag of its key
\* enabled, an Automate call that repeats the one right before it leaves
\* every flag as that call left it, and every Deautomate call returns nil.
AutomateIdempotent ==
    [][/\ last'.op = "Automate" =>
             last'.err = nil /\ automator'[<<last'.ns, last'.svc>>]
       /\ (last'.op = "Automate" /\ last'.repeat) => automator' = automator
       /\ last'.op = "Deautomate" => last'.err = nil]_vars

\* C12 witness: Automate was called twice in succession on one key; its
\* flag is enabled and the other key's is not.
AutomateIdempotentWitness ==
    /\ last.op = "Automate"
    /\ last.repeat
    /\ last.err = nil
    /\ automator[<<last.ns, last.svc>>]
    /\ \E k \in Keys : ~automator[k]

\* C13: inside Release the leaf calls come in the order
\* ChangeState(InProgress), platform Release, LogEvent, ChangeState(Rest).
\* While the platform call runs and until LogEvent, the call's only history
\* call is ChangeState(InProgress); the platform call has ended before
\* LogEvent; and for a call alone on its key the log is as the call found it
\* until LogEvent and the register reads InProgress until ChangeState(Rest).
ReleaseCallOrder ==
    \A p \in Procs :
        /\ pc[p] = "platform" => outcome[p] = "none"
        /\ pc[p] \in {"log", "rest"} => outcome[p] \in PlatformOutcomes
        /\ pc[p] \in {"platform", "log"} =>
              /\ trace[p] = <<[call |-> "ChangeState", arg |-> StateInProgress]>>
              /\ alone[p] => events[key[p]] = snap[p].events
        /\ pc[p] = "rest" =>
              /\ Len(trace[p]) = 2
              /\ trace[p][1] = [call |-> "ChangeState", arg |-> StateInProgress]
              /\ trace[p][2].call = "LogEvent"
              /\ alone[p] => Len(events[key[p]]) = Len(snap[p].events) + 1
        /\ (Running(p) /\ alone[p]) => state[key[p]] = StateInProgress
        /\ (pc[p] = "done" /\ platform) =>
              /\ Len(trace[p]) = 3
              /\ trace[p][2].call = "LogEvent"
              /\ trace[p][3] = [call |-> "ChangeState", arg |-> StateRest]

\* C13 witness: a call alone on its key has appended its event after a
\* platform error and has not yet reset the register.
ReleaseCallOrderWitness ==
    \E p \in Procs :
        /\ pc[p] = "rest"
        /\ alone[p]
        /\ outcome[p] = "timeout"
        /\ state[key[p]] = StateInProgress
        /\ events[key[p]] = Append(snap[p].events, "Release failed: timeout")

\* The register, the log or the record of key k differs after the step.
HistoryChanged(k) ==
    \/ state'[k] # state[k]
    \/ events'[k] # events[k]
    \/ (k \in present') # (k \in present)

InProgressLeadsToRest ==
    /\ \A k \in Keys : (state[k] = StateInProgress) ~> (state[k] = StateRest)
    /\ [](\A k \in Keys :
            (\A p \in Procs : ~(Running(p) /\ key[p] = k)) => state[k] = StateRest)

\* C15 witness: two calls overlapped on one key, both have finished after
\* a platform error, and the register reads Rest.
InProgressLeadsToRestWitness ==
    \E p \in Procs, q \in Procs :
        /\ p # q
        /\ pc[p] = "done" /\ pc[q] = "done"
        /\ key[p] = key[q]
        /\ ~alone[p]
        /\ outcome[p] \in PlatformErrors
        /\ Len(trace[p]) = 3 /\ Len(trace[q]) = 3
        /\ state[key[p]] = StateRest

\* C16: the core never writes Unknown to the history store: no register
\* reads Unknown, every ChangeState call of a Release carries InProgress or
\* Rest, and a record in state Unknown appears only in what History returns
\* for the one workload asked for when the store has no history for it.
NeverPersistsUnknown ==
    /\ \A k \in Keys : state[k] \in {StateRest, StateInProgress}
    /\ \A p \in Procs :
          \A i \in DOMAIN trace[p] :
              trace[p][i].call = "ChangeState" =>
                  trace[p][i].arg \in {StateRest, StateInProgress}
    /\ last.op = "History" =>
          \A s \in DOMAIN last.hist :
              last.hist[s].State = StateUnknown =>
                  s = last.svc /\ last.leafErr = ErrNoHistory

\* C16 witness: History returned an Unknown record for one workload while
\* the store holds a record for the other, on which a Release has finished
\* and a second one is under way.
NeverPersistsUnknownWitness ==
    /\ last.op = "History"
    /\ last.svc = "web"
    /\ last.leafErr = ErrNoHistory
    /\ last.hist["web"].State = StateUnknown
    /\ present = {<<last.ns, "api">>}
    /\ state[<<last.ns, "api">>] = StateInProgress
    /\ Len(events[<<last.ns, "api">>]) = 1
    /\ state[<<last.ns, "web">>] = StateRest

\* C17: when the store fails with an error other than ErrNoHistory for the
\* workload asked for, History returns that error and no mapping.
HistoryPropagatesStoreError ==
    (last.op = "History" /\ last.svc # "" /\ last.leafErr \in StoreErrors)
        => /\ last.err = last.leafErr
           /\ DOMAIN last.hist = {}

\* C17 witness: the store failed for a workload it holds a record for, and
\* History returned the store's error.
HistoryPropagatesStoreErrorWitness ==
    /\ last.op = "History"
    /\ last.svc = "web"
    /\ last.leafErr = "db unavailable"
    /\ last.err = "db unavailable"
    /\ <<last.ns, "web">> \in present
    /\ Len(events[<<last.ns, "web">>]) = 1

\* Every Release call made so far has returned, and every goroutine that
\* called made one call, so outcome and key of every call are still known.
AllReturned ==
    /\ platform
    /\ \A p \in Procs : pc[p] \in {"idle", "done"}
    /\ ncalls = Cardinality({p \in Procs : pc[p] = "done"})

\* The calls made on key k.
CallsOn(k) == {p \in Procs : pc[p] = "done" /\ key[p] = k}

\* The audit text is the one the claim asks for after outcome o: success
\* after a success, the failure with the error's text after an error, and
\* not a success after a panic.
Matches(text, o) ==
    IF o = "ok" THEN text = "Release succeeded"
    ELSE IF o \in PlatformErrors THEN text = "Release failed: " \o o
    ELSE text # "Release succeeded"

\* The audit text is the one the deferred function writes after outcome o.
Logged(text, o) ==
    IF o \in PlatformErrors THEN text = "Release failed: " \o o
    ELSE text = "Release succeeded"

AllReturnedEventsLogged ==
    AllReturned =>
        \A k \in Keys :
            /\ state[k] = StateRest
            /\ Len(events[k]) = Cardinality(CallsOn(k))
            /\ \E f \in [CallsOn(k) -> DOMAIN events[k]] :
                  /\ \A p \in CallsOn(k), q \in CallsOn(k) : f[p] = f[q] => p = q
                  /\ \A p \in CallsOn(k) : Logged(events[k][f[p]], outcome[p])

\* Container k's lookup is the first of the last ServiceImages call to fail.
FirstFailure(k) ==
    /\ LookupOf(k).err # nil
    /\ \A j \in 1 .. (k - 1) : LookupOf(j).err = nil

\* C19: when the platform's listing fails, ServiceImages returns that error
\* and asks the registry nothing; when container k's lookup is the first to
\* fail, the registry was asked for containers 1..k and no other, in that
\* order, and the error returned is the error of container k's lookup.
ServiceImagesFailFast ==
    /\ (last.op = "ServiceImages" /\ ~last.panicked /\ last.leafErr # nil)
          => /\ last.err = last.leafErr
             /\ last.lookups = <<>>
             /\ last.images = <<>>
    /\ ListedContainers =>
          \A k \in DOMAIN last.containers :
              FirstFailure(k) =>
                  /\ last.err = LookupOf(k).err
                  /\ Len(last.lookups) = k
                  /\ \A j \in 1 .. k :
                        RunsFrom(last.containers[j].Image, last.lookups[j])

\* C19 witness: the first of two containers failed with one error, the
\* second would have failed with the other, and only the first was asked.
ServiceImagesFailFastWitness ==
    /\ ListedContainers
    /\ Len(last.containers) = 2
    /\ LookupOf(1).err = "registry unavailable"
    /\ LookupOf(2).err = "repository not found"
    /\ last.err = "registry unavailable"
    /\ last.lookups = <<<<"app">>>>

\* C20: on a core with no platform, ServiceImages reports the missing
\* platform as a returned error, as Services and Release do, and does not
\* crash.
MissingPlatformIsAnError ==
    (last.op = "ServiceImages" /\ ~platform)
        => ~last.panicked /\ last.err # nil

====
